---- MODULE Spec2Model ----
(***************************************************************************)
(* Limited-memory BFGS optimizer of isanet (isanet/optimizer/LBFGS.py).    *)
(*                                                                         *)
(* Numbers are exact rationals <<n, d>> in lowest terms with d > 0; the    *)
(* pair <<0, 0>> stands for every non-finite float (inf, -inf, nan), which *)
(* numpy produces on a division by zero and which every later operation    *)
(* keeps non-finite.  Vectors are sequences of rationals.                  *)
(***************************************************************************)
EXTENDS Integers, Sequences, FiniteSets

(* ------------------------------ bounds -------------------------------- *)

\* Largest memory size m the optimizer is constructed with (m ranges over 1..MaxM).
MaxM == 2

\* Largest number of batches per epoch (full batch is 1).
MaxBatches == 2

\* Number of epochs requested from the training driver.
Epochs == 3

\* Cap on the total number of step calls explored in one run.
MaxSteps == 4

\* Number of patterns in each batch (X.shape[0]).
BatchSize == 1

(* --------------------------- rational numbers ------------------------- *)

Abs(x) == IF x < 0 THEN -x ELSE x

RECURSIVE GCD(_, _)
GCD(a, b) == IF b = 0 THEN a ELSE GCD(b, a % b)

NonFinite == <<0, 0>>

\* n/d in lowest terms, k being the greatest common divisor of |n| and |d|.
Reduce(n, d, k) == IF d < 0 THEN <<(-n) \div k, (-d) \div k>> ELSE <<n \div k, d \div k>>

Rat(n, d) ==
    IF d = 0 THEN NonFinite
    ELSE IF d = 1 THEN <<n, 1>>
    ELSE Reduce(n, d, GCD(Abs(n), Abs(d)))

IsFinite(a) == a[2] # 0

ToR(i) == <<i, 1>>

RNeg(a) == <<-a[1], a[2]>>

\* Sums go over the least common denominator and products cancel crosswise
\* first, so that intermediate integers stay small.
AddOver(a, b, k) == Rat(a[1] * (b[2] \div k) + b[1] * (a[2] \div k), (a[2] \div k) * b[2])

RAdd(a, b) ==
    IF a[2] = 0 \/ b[2] = 0 THEN NonFinite
    ELSE IF a[2] = b[2] THEN Rat(a[1] + b[1], a[2])
    ELSE AddOver(a, b, GCD(a[2], b[2]))

RSub(a, b) == RAdd(a, RNeg(b))

MulOver(a, b, k1, k2) ==
    Rat((a[1] \div k1) * (b[1] \div k2), (a[2] \div k2) * (b[2] \div k1))

RMul(a, b) ==
    IF a[2] = 0 \/ b[2] = 0 THEN NonFinite
    ELSE IF a[2] = 1 /\ b[2] = 1 THEN <<a[1] * b[1], 1>>
    ELSE MulOver(a, b, GCD(Abs(a[1]), b[2]), GCD(Abs(b[1]), a[2]))

\* a / b; a zero divisor gives a non-finite value.
RDiv(a, b) ==
    IF b[2] = 0 \/ b[1] = 0 THEN NonFinite ELSE RMul(a, Rat(b[2], b[1]))

\* a > 0 for a float a; every comparison with a non-finite value is false here
\* (nan compares false).
RPos(a) == IsFinite(a) /\ a[1] > 0

(* ------------------------------- vectors ------------------------------ *)

\* A vector is built as a function and turned into a tuple by \o <<>>.

VAdd(u, v) == [i \in 1..Len(u) |-> RAdd(u[i], v[i])] \o <<>>

VSub(u, v) == [i \in 1..Len(u) |-> RSub(u[i], v[i])] \o <<>>

VScale(c, v) == [i \in 1..Len(v) |-> RMul(c, v[i])] \o <<>>

VNeg(v) == [i \in 1..Len(v) |-> RNeg(v[i])] \o <<>>

RECURSIVE DotFrom(_, _, _)
DotFrom(u, v, i) ==
    IF i > Len(u) THEN ToR(0)
    ELSE RAdd(RMul(u[i], v[i]), DotFrom(u, v, i + 1))

\* np.dot of two flat vectors.
Dot(u, v) == DotFrom(u, v, 1)

\* np.linalg.norm(g), kept exactly as the tagged square it is the root of.
Norm(g) == <<"sqrt", Dot(g, g)>>

Reverse(q) == [i \in 1..Len(q) |-> q[Len(q) + 1 - i]] \o <<>>

(* -------------------------- vector marshaling ------------------------- *)

RECURSIVE Concat(_, _)
Concat(layers, i) ==
    IF i > Len(layers) THEN <<>> ELSE layers[i] \o Concat(layers, i + 1)

\* make_vector: the layers' entries, concatenated in layer order.
make_vector(layers) == Concat(layers, 1)

RECURSIVE Offset(_, _)
Offset(layers, i) == IF i = 1 THEN 0 ELSE Offset(layers, i - 1) + Len(layers[i - 1])

\* restore_w_to_model: slices the flat vector w into the shapes of the model's layers.
restore_w_to_model(layers, w) ==
    [i \in 1..Len(layers) |->
        [j \in 1..Len(layers[i]) |-> w[Offset(layers, i) + j]]]

(* ------------------------------- LBFGS -------------------------------- *)

None == <<>>

\* Python's ~ on a bool: the integer -b - 1.
BitNot(b) == IF b THEN -2 ELSE -1

\* The truth value of a Python int or bool used as a condition.
Truthy(x) == x # 0

\* An empty history, as __init__ builds it.
EmptyHistory ==
    [alpha |-> <<>>, norm_g |-> <<>>, ls_conv |-> <<>>, ls_it |-> <<>>,
     ls_time |-> <<>>, zoom_used |-> <<>>, zoom_conv |-> <<>>, zoom_it |-> <<>>]

\* LBFGS.backpropagation: the raw per-layer gradient scaled by 2/X.shape[0], plus
\* 2*kernel_regularizer[0]*weights for every layer.
backpropagation(raw, w, n_patterns, reg) ==
    [i \in 1..Len(raw) |->
        VAdd(VScale(RDiv(ToR(2), ToR(n_patterns)), raw[i]),
             VScale(RMul(ToR(2), reg[1]), w[i]))]

\* Variant of ColdStart with a logical not in place of ~.
ColdStartNot(is_fitted, e) == (~is_fitted) /\ e = 0

\* The condition of the cold-start branch: ~model.is_fitted and self.epoch == 0.
ColdStart(is_fitted, e) == Truthy(BitNot(is_fitted)) /\ e = 0

\* The curvature threshold 1e-8 is 1/CurvatureEpsDen.
CurvatureEpsDen == 100000000

\* curvature_condition <= 1e-8 (n/d <= 1/E iff n <= d div E, for d, E > 0).
CurvatureFault(cc) == IsFinite(cc) /\ cc[1] <= cc[2] \div CurvatureEpsDen

Min(a, b) == IF a < b THEN a ELSE b

\* The backward loop of compute_search_dir over zip(reversed(s), reversed(y)):
\* rs and ry are the reversed lists, a collects the alphas in visiting order.
\* BackwardUpdate is the loop body once alpha is computed.
RECURSIVE BackwardLoop(_, _, _, _, _)
RECURSIVE BackwardUpdate(_, _, _, _, _, _)
BackwardUpdate(rs, ry, i, q, a, alpha) ==
    BackwardLoop(rs, ry, i + 1, VSub(q, VScale(alpha, ry[i])), Append(a, alpha))

BackwardLoop(rs, ry, i, q, a) ==
    IF i > Min(Len(rs), Len(ry)) THEN [q |-> q, a |-> a]
    ELSE LET p == RDiv(ToR(1), Dot(ry[i], rs[i]))
         IN  BackwardUpdate(rs, ry, i, q, a, RMul(p, Dot(rs[i], q)))

\* Variant of ForwardAlphas that leaves a in visiting order.
ForwardAlphasUnreversed(a) == a

\* The alphas as the forward loop reads them: reversed(a).
ForwardAlphas(a) == Reverse(a)

\* The forward loop of compute_search_dir over zip(s, y, reversed(a)).
RECURSIVE ForwardLoop(_, _, _, _, _)
ForwardLoop(s_, y_, ra, i, r) ==
    IF i > Min(Min(Len(s_), Len(y_)), Len(ra)) THEN r
    ELSE LET p == RDiv(ToR(1), Dot(y_[i], s_[i]))
             b == RMul(p, Dot(y_[i], r))
         IN  ForwardLoop(s_, y_, ra, i + 1,
                         VAdd(r, VScale(RSub(ra[i], b), s_[i])))

\* The second half of compute_search_dir: r = H0*q, then the forward loop.
ForwardPass(H0, s_, y_, back) ==
    ForwardLoop(s_, y_, ForwardAlphas(back.a), 1, VScale(H0, back.q))

compute_search_dir(g, H0, s_, y_) ==
    ForwardPass(H0, s_, y_, BackwardLoop(Reverse(s_), Reverse(y_), 1, g, <<>>))

\* Variant of Evict that pops the newest entry (pop() for pop(0)).
EvictNewest(lst, ls_, ly_, mem) ==
    IF ls_ = mem /\ ly_ = mem THEN SubSeq(lst, 1, Len(lst) - 1) ELSE lst

\* One list of the window after the eviction of lines 133-135: it loses its oldest
\* entry when len(s) and len(y) both equal m.
Evict(lst, ls_, ly_, mem) ==
    IF ls_ = mem /\ ly_ = mem THEN Tail(lst) ELSE lst

\* Variant of append_history that records converged line searches only.
append_historyConvOnly(h, alpha, norm_g, ls_log) ==
    IF ls_log.ls_conv
    THEN [alpha |-> Append(h.alpha, alpha),
          norm_g |-> Append(h.norm_g, norm_g),
          ls_conv |-> Append(h.ls_conv, ls_log.ls_conv),
          ls_it |-> Append(h.ls_it, ls_log.ls_it),
          ls_time |-> Append(h.ls_time, ls_log.ls_time),
          zoom_used |-> Append(h.zoom_used, ls_log.zoom_used),
          zoom_conv |-> Append(h.zoom_conv, ls_log.zoom_conv),
          zoom_it |-> Append(h.zoom_it, ls_log.zoom_it)]
    ELSE h

\* append_history: one entry appended to each of the eight lists.
append_history(h, alpha, norm_g, ls_log) ==
    [alpha |-> Append(h.alpha, alpha),
     norm_g |-> Append(h.norm_g, norm_g),
     ls_conv |-> Append(h.ls_conv, ls_log.ls_conv),
     ls_it |-> Append(h.ls_it, ls_log.ls_it),
     ls_time |-> Append(h.ls_time, ls_log.ls_time),
     zoom_used |-> Append(h.zoom_used, ls_log.zoom_used),
     zoom_conv |-> Append(h.zoom_conv, ls_log.zoom_conv),
     zoom_it |-> Append(h.zoom_it, ls_log.zoom_it)]

(* ------------------------- inputs of the model ------------------------ *)

\* What the model collaborator returns for a batch: the raw per-layer gradient of
\* super().backpropagation and the loss metrics.mse_reg at the current weights.
Evals ==
    { [raw |-> << <<ToR(1)>>, <<ToR(0)>> >>, loss |-> ToR(5)],
      [raw |-> << <<ToR(0)>>, <<ToR(1)>> >>, loss |-> ToR(2)],
      [raw |-> << <<ToR(1)>>, <<ToR(1)>> >>, loss |-> ToR(3)] }

\* What line_search_wolfe returns: the step length and its log, once converged and
\* once with the iterations exhausted.
LineSearchResults ==
    { [alpha |-> ToR(1),
       ls_log |-> [ls_conv |-> TRUE, ls_it |-> 1, ls_time |-> 1,
                   zoom_used |-> FALSE, zoom_conv |-> FALSE, zoom_it |-> 0]],
      [alpha |-> Rat(1, 2),
       ls_log |-> [ls_conv |-> FALSE, ls_it |-> 10, ls_time |-> 2,
                   zoom_used |-> TRUE, zoom_conv |-> FALSE, zoom_it |-> 10]] }

\* Constructor arguments (c1, c2, ln_maxiter): the defaults and one other choice.
Hyperparameters ==
    { [c1 |-> Rat(1, 10000), c2 |-> Rat(9, 10), ln_maxiter |-> 10],
      [c1 |-> Rat(1, 1000), c2 |-> Rat(1, 2), ln_maxiter |-> 5] }

\* Per-layer regularization coefficients of the model: none, or the second layer
\* regularized.
Regularizers == { <<ToR(0), ToR(0)>>, <<ToR(0), ToR(1)>> }

\* The model's weights before training: two layers of one weight each.
InitialWeights == << <<ToR(1)>>, <<ToR(-1)>> >>

\* The maximum number of iterations line_search_wolfe uses when the caller
\* passes none.
LineSearchDefaultMaxiter == 10

\* The maximum number of iterations in force for a call of line_search_wolfe.
LineSearchMaxiter(call) ==
    IF "maxiter" \in DOMAIN call THEN call.maxiter ELSE LineSearchDefaultMaxiter

(* -------------------------------- state ------------------------------- *)

VARIABLES
    weights,             \* model.weights: a list of layers
    kernel_regularizer,  \* model.kernel_regularizer
    is_fitted,           \* model.is_fitted
    m, c1, c2, ln_maxiter,   \* LBFGS constructor arguments
    s, y,                \* the curvature window
    old_phi0,            \* self.old_phi0
    history,             \* self.history
    status,              \* the training driver: Idle, Running, Failed, MaxEpochsReached
    epoch,               \* self.epoch, set by the driver
    batch,               \* batches of this epoch already stepped
    n_batches,           \* batches per epoch
    trace,               \* what the last call of step evaluated
    calls,               \* g and phi0 of every call of step, in order
    pushed,              \* every s pushed to the window, in order
    completed            \* number of calls of step that returned

vars ==
    <<weights, kernel_regularizer, is_fitted, m, c1, c2, ln_maxiter, s, y,
      old_phi0, history, status, epoch, batch, n_batches, trace, calls, pushed,
      completed>>

config == <<kernel_regularizer, is_fitted, m, c1, c2, ln_maxiter, n_batches>>

NoTrace ==
    [kind |-> "none", n0 |-> 0, g |-> <<>>, w0 |-> <<>>, two_loop |-> FALSE,
     H0 |-> None, win_s |-> <<>>, win_y |-> <<>>, r |-> <<>>, d |-> <<>>,
     cc |-> None, pair_cc |-> None, ls_called |-> FALSE, ls |-> None,
     ls_log |-> None, alpha |-> None, w1 |-> <<>>]

Init ==
    /\ weights = InitialWeights
    /\ kernel_regularizer \in Regularizers
    /\ is_fitted \in BOOLEAN
    /\ m \in 1..MaxM
    /\ \E h \in Hyperparameters :
          c1 = h.c1 /\ c2 = h.c2 /\ ln_maxiter = h.ln_maxiter
    /\ s = <<>>
    /\ y = <<>>
    /\ old_phi0 = None
    /\ history = EmptyHistory
    /\ status = "Idle"
    /\ epoch = 0
    /\ batch = 0
    /\ n_batches \in 1..MaxBatches
    /\ trace = NoTrace
    /\ calls = <<>>
    /\ pushed = <<>>
    /\ completed = 0

(* ------------------------------- actions ------------------------------ *)

\* The driver starts a run: epoch 0, first batch.
Optimize ==
    /\ status = "Idle"
    /\ status' = "Running"
    /\ epoch' = 0
    /\ batch' = 0
    /\ UNCHANGED <<weights, config, s, y, old_phi0, history, trace, calls,
                   pushed, completed>>

\* In the actions, \E x \in {e} names the value of e, as a local variable of the
\* code does.

\* Lines 116-143 of step: the line search along d, the weight update, the push of
\* the new pair and the history record.  ycur is self.y as the direction branch
\* left it.
Continue(tr, phi0, d, ycur) ==
    \E res \in LineSearchResults :
    \E w0 \in {tr.w0}, g \in {tr.g}, alpha \in {res.alpha} :
    \E w1 \in {VAdd(w0, VScale(alpha, d))} :
    \E l_w1 \in {restore_w_to_model(weights, w1)} :
        LET call == [phi0 |-> phi0, old_phi0 |-> old_phi0, c1 |-> c1, c2 |-> c2]
            tot_n_patterns == n_batches * BatchSize
            regularizer(i) ==
                RDiv(RMul(kernel_regularizer[i], ToR(BatchSize)),
                     ToR(tot_n_patterns))
            weights_decay(i) == VScale(RMul(ToR(2), regularizer(i)), weights[i])
        IN  /\ weights' = [i \in 1..Len(weights) |->
                              VSub(l_w1[i], weights_decay(i))]
            /\ old_phi0' = phi0
            /\ s' = Append(Evict(s, Len(s), Len(ycur), m), VSub(w1, w0))
            /\ y' = Append(Evict(ycur, Len(s), Len(ycur), m), g)
            /\ history' = append_history(history, alpha, Norm(g), res.ls_log)
            /\ trace' = [tr EXCEPT !.d = d, !.ls_called = TRUE, !.ls = call,
                                   !.ls_log = res.ls_log, !.alpha = alpha,
                                   !.w1 = w1]
            /\ pushed' = Append(pushed, VSub(w1, w0))
            /\ completed' = completed + 1
            /\ batch' = batch + 1
            /\ UNCHANGED <<status, epoch>>

\* The step raises: the exception leaves the driver, the run has failed.
Raise(tr, ycur) ==
    /\ y' = ycur
    /\ trace' = tr
    /\ status' = "Failed"
    /\ UNCHANGED <<weights, s, old_phi0, history, epoch, batch, pushed, completed>>

\* LBFGS.step on one batch, called by the driver.
Step ==
    /\ status = "Running"
    /\ batch < n_batches
    /\ Len(calls) < MaxSteps
    /\ \E ev \in Evals :
       \E w0 \in {make_vector(weights)} :
       \E g \in {make_vector(backpropagation(ev.raw, weights, BatchSize,
                                             kernel_regularizer))} :
       \E phi0 \in {ev.loss}, n \in {Len(y)} :
       \* s . (g - y) of the newest stored pair, whichever branch runs
       \E pair_cc \in {IF Len(s) > 0 /\ n > 0
                       THEN Dot(s[Len(s)], VSub(g, y[n])) ELSE None} :
       \E tr0 \in {[NoTrace EXCEPT !.n0 = Len(s), !.g = g, !.w0 = w0,
                                    !.pair_cc = pair_cc]} :
            /\ calls' = Append(calls, [g |-> g, phi0 |-> phi0])
            /\ IF ColdStart(is_fitted, epoch)
               THEN \E d \in {VNeg(g)} :
                        Continue([tr0 EXCEPT !.kind = "cold"], phi0, d, y)
               ELSE IF n = 0
               THEN \* self.y[-1] on an empty list: IndexError
                    Raise([tr0 EXCEPT !.kind = "index_error"], y)
               ELSE \E y1 \in {[y EXCEPT ![n] = VSub(g, y[n])]} :
                    \E gamma \in {RDiv(Dot(s[Len(s)], y1[n]), Dot(y1[n], y1[n]))} :
                    \E H0 \in {gamma} :
                    \E r \in {compute_search_dir(g, H0, s, y1)} :
                    \E d \in {VNeg(r)} :
                    \E curvature_condition \in {Dot(s[Len(s)], y1[n])} :
                    \E tr1 \in {[tr0 EXCEPT !.two_loop = TRUE, !.H0 = H0,
                                            !.win_s = s, !.win_y = y1, !.r = r,
                                            !.d = d, !.cc = curvature_condition]} :
                        IF CurvatureFault(curvature_condition)
                        THEN Raise([tr1 EXCEPT !.kind = "fault"], y1)
                        ELSE Continue([tr1 EXCEPT !.kind = "qn"], phi0, d, y1)
    /\ UNCHANGED config

\* The driver ends an epoch: the next one starts, or the epoch budget is spent.
EndEpoch ==
    /\ status = "Running"
    /\ batch = n_batches
    /\ IF epoch + 1 = Epochs
       THEN status' = "MaxEpochsReached" /\ UNCHANGED <<epoch, batch>>
       ELSE epoch' = epoch + 1 /\ batch' = 0 /\ UNCHANGED status
    /\ UNCHANGED <<weights, config, s, y, old_phi0, history, trace, calls,
                   pushed, completed>>

Next == Optimize \/ Step \/ EndEpoch

Spec == Init /\ [][Next]_vars

(* ------------------------------ properties ---------------------------- *)

Last(q) == q[Len(q)]

\* The last call of step returned (it did not raise).
Returned == trace.kind \in {"cold", "qn"}

\* C1: after k completed steps the window holds min(k, m) pairs, s and y have the
\* same length, and the retained s are the most recently pushed ones, in the order
\* they were pushed.
C1_WindowIsFifo ==
    /\ Len(s) = Len(y)
    /\ Len(s) = Min(completed, m)
    /\ Len(pushed) = completed
    /\ \A i \in 1..Len(s) : s[i] = pushed[Len(pushed) - Len(s) + i]

\* A window of m >= 2 pairs that has evicted its oldest pair.
C1_Witness ==
    /\ m >= 2
    /\ completed > m
    /\ Len(s) = m
    /\ s[1] # pushed[1]
    /\ s[1] # s[2]

\* C2: while the run continues, every retained pair has s . y > 0.  The newest
\* pair is left out: until the next step its y holds the gradient g0, which that
\* step turns into g1 - g0 and checks.
C2_RetainedPairsCurved ==
    status # "Failed" =>
        \A i \in 1..(Len(s) - 1) : RPos(Dot(s[i], y[i]))

\* C3: compute_search_dir and H0 are never evaluated on a window whose newest pair
\* has s . y at or below the threshold.
C3_CheckBeforeDirection ==
    trace.two_loop => ~CurvatureFault(trace.cc)

\* C4: a step that starts with a newest pair (s, g - y) whose s . y is at or below
\* the threshold raises, and calls no line search, writes no weights, pushes and
\* evicts no pair, leaves old_phi0 and appends no history record.
C4_FaultStopsStep ==
    [][(calls' # calls /\ Len(s) > 0 /\ CurvatureFault(trace'.pair_cc))
          => /\ status' = "Failed"
             /\ ~trace'.ls_called
             /\ weights' = weights
             /\ s' = s
             /\ Len(y') = Len(y)
             /\ old_phi0' = old_phi0
             /\ history' = history]_vars

\* C5: a step that starts with an empty window hands -g to the line search and
\* does not read the window or run the two-loop recursion.
C5_ColdStartIsSteepestDescent ==
    (trace.kind # "none" /\ trace.n0 = 0) =>
        /\ trace.kind = "cold"
        /\ ~trace.two_loop
        /\ trace.ls_called
        /\ trace.d = VNeg(trace.g)

\* The first step of a run has completed from an empty window.
C5_Witness ==
    /\ trace.kind = "cold"
    /\ trace.n0 = 0
    /\ completed = 1
    /\ trace.d = VNeg(trace.g)

\* The reference two-loop recursion, by pair index (1 is the oldest pair):
\* RefQ(i) is q after the backward pass has visited pairs n down to i, RefAlpha(i)
\* the alpha of pair i, RefR(i) is r after the forward pass has visited pairs 1..i.
RECURSIVE RefQ(_, _, _, _)
RECURSIVE RefAlpha(_, _, _, _)
RefAlpha(g, ws, wy, i) == RDiv(Dot(ws[i], RefQ(g, ws, wy, i + 1)), Dot(wy[i], ws[i]))

RefQStep(qn, si, yi) == VSub(qn, VScale(RDiv(Dot(si, qn), Dot(yi, si)), yi))

RefQ(g, ws, wy, i) ==
    IF i > Len(ws) THEN g ELSE RefQStep(RefQ(g, ws, wy, i + 1), ws[i], wy[i])

RefCorrect(rp, alpha, si, yi) ==
    VAdd(rp, VScale(RSub(alpha, RDiv(Dot(yi, rp), Dot(yi, si))), si))

RECURSIVE RefR(_, _, _, _, _)
RefR(g, H0, ws, wy, i) ==
    IF i = 0 THEN VScale(H0, RefQ(g, ws, wy, 1))
    ELSE RefCorrect(RefR(g, H0, ws, wy, i - 1), RefAlpha(g, ws, wy, i), ws[i], wy[i])

\* The single-pair update in closed form: H0*q plus one correction term.
ClosedFormOnePair(g, H0, s1, y1) ==
    LET alpha == RDiv(Dot(s1, g), Dot(y1, s1))
        q == VSub(g, VScale(alpha, y1))
        beta == RDiv(RMul(H0, Dot(y1, q)), Dot(y1, s1))
    IN  VAdd(VScale(H0, q), VScale(RSub(alpha, beta), s1))

VFinite(v) == \A i \in 1..Len(v) : IsFinite(v[i])

\* C6: whenever step uses the two-loop recursion, its result is the reference
\* recursion on the window of 1..m pairs with H0 = (s_last . y_last)/(y_last .
\* y_last), the direction is -r, and on one pair r is the closed form.
C6_TwoLoopIsReference ==
    (trace.two_loop /\ (trace.kind = "qn" \/ VFinite(trace.r))) =>
        /\ Len(trace.win_s) \in 1..m
        /\ Len(trace.win_y) = Len(trace.win_s)
        /\ trace.H0 = RDiv(Dot(Last(trace.win_s), Last(trace.win_y)),
                           Dot(Last(trace.win_y), Last(trace.win_y)))
        /\ trace.r = RefR(trace.g, trace.H0, trace.win_s, trace.win_y,
                          Len(trace.win_s))
        /\ trace.d = VNeg(trace.r)
        /\ Len(trace.win_s) = 1 =>
              trace.r = ClosedFormOnePair(trace.g, trace.H0, trace.win_s[1],
                                          trace.win_y[1])

\* A step that continued along the direction of a window of two pairs.
C6_Witness ==
    /\ trace.kind = "qn"
    /\ Len(trace.win_s) = 2
    /\ VFinite(trace.d)
    /\ trace.d # VNeg(trace.g)

\* C7: whenever the two-loop recursion runs, every y of the window is the
\* gradient of the step after the one that pushed the pair minus the gradient of
\* the step that pushed it.  Pair i of a window of n pairs was pushed by step
\* k - n + i, k being the number of steps before this one.
C7_YIsGradientDisplacement ==
    trace.two_loop =>
        \A i \in 1..Len(trace.win_y) :
            LET k == Len(calls) - 1 - Len(trace.win_y) + i
            IN  trace.win_y[i] = VSub(calls[k + 1].g, calls[k].g)

\* C8: the s pushed by a step is the displacement of the model's weights over
\* that step, and the weights the model is left with are w0 + alpha*d.
C8_SIsWeightDisplacement ==
    Returned =>
        /\ VSub(make_vector(weights), trace.w0) = Last(s)
        /\ make_vector(weights) = VAdd(trace.w0, VScale(trace.alpha, trace.d))

\* Every history list has k entries after k completed steps, and the newest entry
\* is what the last step and its line search returned, converged or not.
C9_OneRecordPerStep ==
    /\ \A key \in DOMAIN history : Len(history[key]) = completed
    /\ Returned =>
          /\ Last(history.alpha) = trace.alpha
          /\ Last(history.norm_g) = Norm(trace.g)
          /\ Last(history.ls_conv) = trace.ls_log.ls_conv
          /\ Last(history.ls_it) = trace.ls_log.ls_it
          /\ Last(history.ls_time) = trace.ls_log.ls_time
          /\ Last(history.zoom_used) = trace.ls_log.zoom_used
          /\ Last(history.zoom_conv) = trace.ls_log.zoom_conv
          /\ Last(history.zoom_it) = trace.ls_log.zoom_it

\* No step changes or removes an earlier history entry.
C9_EarlierEntriesKept ==
    \A key \in DOMAIN history :
        /\ Len(history'[key]) >= Len(history[key])
        /\ SubSeq(history'[key], 1, Len(history[key])) = history[key]

\* C9: history is append-only with one record per completed step, a step whose
\* line search did not converge included.
C9_HistoryAppendOnly == []C9_OneRecordPerStep /\ [][C9_EarlierEntriesKept]_vars

\* A second step completed although its line search reported non-convergence.
C9_Witness ==
    /\ completed >= 2
    /\ Returned
    /\ ~trace.ls_log.ls_conv
    /\ Last(history.ls_conv) = FALSE
    /\ history.ls_conv[1] = TRUE

\* C10: the line search gets the configured c1 and c2, runs at most ln_maxiter
\* iterations, and gets old_phi0 = None on the first step and the previous
\* step's phi0 afterwards.
C10_LineSearchConfigured ==
    trace.ls_called =>
        /\ trace.ls.c1 = c1
        /\ trace.ls.c2 = c2
        /\ LineSearchMaxiter(trace.ls) = ln_maxiter
        /\ trace.ls.phi0 = Last(calls).phi0
        /\ trace.ls.old_phi0 =
              IF Len(calls) = 1 THEN None ELSE calls[Len(calls) - 1].phi0

====
